---- MODULE Spec2Model ----
(***************************************************************************)
(* Model of the GitHub trending analyzer (src/app/main.py).                *)
(*                                                                         *)
(* One HTTP request runs get_trending_repos.  The handler is a coroutine:  *)
(* the code between two awaits runs atomically on the event loop, and      *)
(* several requests may be suspended at once.  Each action is one stretch: *)
(*   Arrive           validation, cache probe, issue of the trending GET   *)
(*   TrendingResponse the trending GET resolves: extraction, construction  *)
(*                    of the nodes, issue of the first topic GET or, with  *)
(*                    nothing extracted, edges, cache store and response   *)
(*   TopicResponse    a topic GET resolves: next topic GET or, after the   *)
(*                    last one, edges, cache store and response            *)
(*   Tick             the monotonic clock of the TTL cache advances        *)
(* Specifications:                                                         *)
(*   Spec        concurrent requests, the cache and the clock              *)
(*   SpecExtract one request against every listing of up to MaxEntries     *)
(*   SpecEnrich  the enrichment and edge loops on every extracted list     *)
(*   SpecFill    sequential requests that fill the cache beyond maxsize    *)
(* Strings are tuples of one-character strings so that str.lower() is a    *)
(* real conversion.  last holds the response of the request that ended     *)
(* last; storeLog is the history of the cache stores.                      *)
(***************************************************************************)
EXTENDS Integers, Sequences, FiniteSets, TLC

VARIABLES now, cache, inflight, arrivals, last, storeLog

vars == <<now, cache, inflight, arrivals, last, storeLog>>

(* ---------------- program constants ---------------- *)
CACHE_TTL == 3600
DEFAULT_REPO_LIMIT == 10
CACHE_MAXSIZE == 128
GITHUB_TRENDING_URL == "https://github.com/trending"

(* ---------------- bounds of the model ---------------- *)
MaxEntries == 3
MaxRecords == 3
MaxRequests == 2
MaxTicks == 2
TickStep == CACHE_TTL \div 2

(* ---------------- markers ---------------- *)
(* NoElem: find() returned None for a name; NoText: the same for an element *)
(* whose text is a character tuple; ParseFailure: int() raised ValueError.  *)
NoElem == "NoElem"
NoText == <<"NoElem">>
ParseFailure == -1

(* ---------------- strings ---------------- *)
LowerChar(c) ==
  CASE c = "A" -> "a"
    [] c = "C" -> "c"
    [] c = "G" -> "g"
    [] c = "L" -> "l"
    [] c = "O" -> "o"
    [] c = "U" -> "u"
    [] OTHER -> c

Lower(s) == [i \in DOMAIN s |-> LowerChar(s[i])]

StrGo == <<"G", "o">>
StrGoLower == <<"g", "o">>
StrC == <<"C">>
StrAll == <<"A", "l", "l">>
StrAllLower == <<"a", "l", "l">>
StrUnknownLower == <<"u", "n", "k", "n", "o", "w", "n">>
StrUnknownDefault == <<"U", "n", "k", "n", "o", "w", "n">>
StrEmpty == <<>>
NoDescription == <<"No description provided.">>

Digits == {"0", "1", "2", "3", "4", "5", "6", "7", "8", "9"}

DigitValue(c) ==
  CASE c = "0" -> 0 [] c = "1" -> 1 [] c = "2" -> 2 [] c = "3" -> 3
    [] c = "4" -> 4 [] c = "5" -> 5 [] c = "6" -> 6 [] c = "7" -> 7
    [] c = "8" -> 8 [] c = "9" -> 9

RECURSIVE RemoveCommas(_)
RemoveCommas(s) ==
  IF s = <<>> THEN <<>>
  ELSE IF Head(s) = "," THEN RemoveCommas(Tail(s))
       ELSE <<Head(s)>> \o RemoveCommas(Tail(s))

RECURSIVE DigitsValue(_, _)
DigitsValue(s, acc) ==
  IF s = <<>> THEN acc ELSE DigitsValue(Tail(s), 10 * acc + DigitValue(Head(s)))

ParseInt(s) ==
  IF s # <<>> /\ \A i \in DOMAIN s : s[i] \in Digits
  THEN DigitsValue(s, 0)
  ELSE ParseFailure

(* ---------------- the trending listing ---------------- *)
EntryGoA == [name |-> "a/x", desc |-> NoText, stars |-> <<"7">>, forks |-> NoText, lang |-> StrGo]
EntryGoB == [name |-> "b/y", desc |-> NoText, stars |-> <<"1", ",", "2">>, forks |-> NoText, lang |-> StrGo]
EntryC == [name |-> "c/z", desc |-> NoText, stars |-> NoText, forks |-> NoText, lang |-> StrC]
EntryNoName == [name |-> NoElem, desc |-> NoText, stars |-> <<"7">>, forks |-> NoText, lang |-> StrGo]
EntryNoLang == [name |-> "b/y", desc |-> NoText, stars |-> <<"7">>, forks |-> NoText, lang |-> NoText]
EntryBadStars == [name |-> "c/z", desc |-> NoText, stars |-> <<"1", "k">>, forks |-> NoText, lang |-> StrGo]
EntryGoD == [name |-> "d/w", desc |-> NoText, stars |-> NoText, forks |-> NoText, lang |-> StrGo]

Entries == {EntryGoA, EntryGoB, EntryGoD, EntryC, EntryNoName, EntryNoLang, EntryBadStars}

SeqsUpTo(S, n) == UNION {[1..k -> S] : k \in 0..n}

LongListing == [i \in 1..(DEFAULT_REPO_LIMIT + 1) |-> IF i % 2 = 1 THEN EntryGoA ELSE EntryGoB]

Listings == SeqsUpTo(Entries, MaxEntries) \cup {LongListing}

(* ---------------- extract_repo_data ---------------- *)
ElementText(e, default) == IF e = NoText THEN default ELSE e

(* line 94: if i >= repo_limit: break *)
LimitReachedOffByOne(i, repo_limit) == i > repo_limit

LimitReached(i, repo_limit) == i >= repo_limit

(* line 116: if repo_language != language.lower(): continue *)
LanguageDiffersNever(repo_language, language) == FALSE

LanguageDiffers(repo_language, language) == repo_language # Lower(language)

RECURSIVE ExtractLoop(_, _, _, _, _)
ExtractLoop(elems, i, language, repo_limit, repos) ==
  IF i >= Len(elems) \/ LimitReached(i, repo_limit) THEN repos
  ELSE LET el == elems[i + 1]
           stars == ParseInt(RemoveCommas(ElementText(el.stars, <<"0">>)))
           forks == ParseInt(RemoveCommas(ElementText(el.forks, <<"0">>)))
           repo_language == IF el.lang = NoText THEN StrUnknownDefault ELSE Lower(el.lang)
           skip == \/ el.name = NoElem
                   \/ stars = ParseFailure
                   \/ forks = ParseFailure
                   \/ LanguageDiffers(repo_language, language)
           repo == [name |-> el.name,
                    description |-> ElementText(el.desc, NoDescription),
                    stars |-> stars,
                    forks |-> forks,
                    language |-> repo_language]
       IN ExtractLoop(elems, i + 1, language, repo_limit,
                      IF skip THEN repos ELSE Append(repos, repo))

extract_repo_data(html_content, language, repo_limit) ==
  ExtractLoop(html_content, 0, language, repo_limit, <<>>)

(* ---------------- Node(repo), main.py:205 ---------------- *)
(* Node declares id, description, stars, forks and language, all required  *)
(* (Field(...)), and no alias; pydantic ignores the extra key and raises   *)
(* ValidationError for a missing required field.                           *)
NodeFields == {"id", "description", "stars", "forks", "language"}

NodeValidates(repo) == NodeFields \subseteq DOMAIN repo

NodeOf(repo) == [f \in NodeFields |-> repo[f]]

NodesRaise(repos_data) == \E i \in DOMAIN repos_data : ~NodeValidates(repos_data[i])

NodesOf(repos_data) == [i \in DOMAIN repos_data |-> NodeOf(repos_data[i])]

(* ---------------- edges, main.py:213-229 ---------------- *)
SetOf(list) == {list[i] : i \in DOMAIN list}

NoTopics == [n \in {} |-> <<>>]

TopicsGet(repo_topics, name) ==
  IF name \in DOMAIN repo_topics THEN repo_topics[name] ELSE <<>>

CommonTopicsCountList(topics1, topics2) ==
  Cardinality({i \in DOMAIN topics1 : topics1[i] \in SetOf(topics2)})

CommonTopicsCount(topics1, topics2) == Cardinality(SetOf(topics1) \cap SetOf(topics2))

InnerStart(i) == i + 1

RECURSIVE EdgeLoop(_, _, _, _, _)
EdgeLoop(repos_data, repo_topics, i, j, edges) ==
  IF i >= Len(repos_data) THEN edges
  ELSE IF j >= Len(repos_data)
       THEN EdgeLoop(repos_data, repo_topics, i + 1, InnerStart(i + 1), edges)
       ELSE LET repo1_name == repos_data[i + 1].name
                repo2_name == repos_data[j + 1].name
                edge_weight == CommonTopicsCount(TopicsGet(repo_topics, repo1_name),
                                                 TopicsGet(repo_topics, repo2_name))
                edge == [source |-> repo1_name, target |-> repo2_name, weight |-> edge_weight]
            IN EdgeLoop(repos_data, repo_topics, i, j + 1,
                        IF edge_weight > 0 THEN Append(edges, edge) ELSE edges)

BuildEdges(repos_data, repo_topics) ==
  EdgeLoop(repos_data, repo_topics, 0, InnerStart(0), <<>>)

(* ---------------- TTLCache(maxsize=128, ttl=CACHE_TTL), main.py:43 ------- *)
(* cache is the sequence of links, least recently used first; an entry is  *)
(* live while timer() < expires.                                           *)
CacheKey(language, repo_limit) == <<language, repo_limit>>

CacheExpire(c, t) == SelectSeq(c, LAMBDA e : t < e.expires)

CacheContainsInclusive(c, key, t) == \E i \in DOMAIN c : c[i].key = key /\ t <= c[i].expires

CacheContains(c, key, t) == \E i \in DOMAIN c : c[i].key = key /\ t < c[i].expires

CacheWithout(c, key) == SelectSeq(c, LAMBDA e : e.key # key)

CacheEntry(c, key) == c[CHOOSE i \in DOMAIN c : c[i].key = key]

CacheValue(c, key) == CacheEntry(c, key).value

(* cache[key]: __getitem__ moves the link to the most recently used end *)
CacheTouch(c, key) == Append(CacheWithout(c, key), CacheEntry(c, key))

RECURSIVE CachePopUntilFits(_)
CachePopUntilFits(c) ==
  IF Len(c) + 1 > CACHE_MAXSIZE THEN CachePopUntilFits(Tail(c)) ELSE c

CacheSetItem(c, key, value, t) ==
  LET live == CacheExpire(c, t)
      room == IF \E i \in DOMAIN live : live[i].key = key
              THEN live ELSE CachePopUntilFits(live)
  IN Append(CacheWithout(room, key),
            [key |-> key, value |-> value, expires |-> t + CACHE_TTL])

(* keys that CacheSetItem removes although they have not expired *)
CacheEvicted(c, key, value, t) ==
  LET live == CacheExpire(c, t)
      after == CacheSetItem(c, key, value, t)
  IN {live[i].key : i \in DOMAIN live} \ {after[i].key : i \in DOMAIN after}

(* ---------------- get_trending_repos, main.py:247-289 ---------------- *)
DetailNone == ""
DetailNoLanguage == "Language must be provided."
DetailUnsupported == "Language 'all' or 'unknown' is not supported."
DetailBadLimit == "repo_limit must be greater than 0."
DetailErrorFetching == "Error fetching"
DetailFailedToFetch == "Failed to fetch"
DetailErrorAnalyzing == "Error analyzing repositories"

ValidationDetailNoLimitCheck(language, repo_limit) ==
  IF language = StrEmpty THEN DetailNoLanguage
  ELSE IF Lower(language) \in {StrAllLower, StrUnknownLower} THEN DetailUnsupported
  ELSE DetailNone

ValidationDetail(language, repo_limit) ==
  IF language = StrEmpty THEN DetailNoLanguage
  ELSE IF Lower(language) \in {StrAllLower, StrUnknownLower} THEN DetailUnsupported
  ELSE IF repo_limit <= 0 THEN DetailBadLimit
  ELSE DetailNone

RepoLimitOf(query) == IF query = <<>> THEN DEFAULT_REPO_LIMIT ELSE query[1]

TrendingUrl(language) == <<GITHUB_TRENDING_URL, language>>

(* the requests and upstream answers the model draws from *)
ReqLanguages == {StrGo, StrGoLower, StrAll, StrUnknownLower, StrEmpty}
ReqQueries == {<<>>, <<0>>, <<1>>}
ErrorStatuses == {404, 503}
OutcomeOK(h) == [kind |-> "OK", status |-> 200, html |-> h]
ServedListings == {<<>>, <<EntryC>>, <<EntryC, EntryGoB>>}
TrendingOutcomes ==
  {[kind |-> "RequestError", status |-> 0, html |-> <<>>]}
  \cup {[kind |-> "Status", status |-> st, html |-> <<>>] : st \in ErrorStatuses}
  \cup {OutcomeOK(h) : h \in ServedListings}

(* the requests and listings of the extraction runs (SpecExtract) *)
StrCLower == <<"c">>
ExtractLanguages == {StrGo, StrGoLower, StrCLower}
ExtractQueries == {<<>>, <<1>>, <<2>>, <<3>>}


(* the answers of a repository page, fetch_repository_topics lines 147-164 *)
TopicLists == {<<>>, <<"cli">>, <<"parsing">>, <<"cli", "parsing">>, <<"cli", "cli">>}
TopicOutcomes ==
  {[kind |-> k, topics |-> <<>>] : k \in {"RequestError", "Status"}}
  \cup {[kind |-> "OK", topics |-> t] : t \in TopicLists}

(* lines 153-163: the topics of the page, [] on any failure *)
FetchedTopics(outcome) == IF outcome.kind = "OK" THEN outcome.topics ELSE <<>>

IdleRequest ==
  [pc |-> "idle", language |-> StrEmpty, query |-> <<>>, repo_limit |-> 0,
   arrived |-> 0, seen |-> {}, upstream |-> 0, html |-> <<>>, repos_data |-> <<>>,
   nodes |-> <<>>, k |-> 0, outcomes |-> <<>>, repo_topics |-> NoTopics]

(* store events under the same language up to letter case and the same limit *)
SeenStores(language, repo_limit) ==
  {e \in storeLog : Lower(e.key[1]) = Lower(language) /\ e.key[2] = repo_limit}

Response(req, status, detail) ==
  [language |-> req.language, query |-> req.query, repo_limit |-> req.repo_limit,
   arrived |-> req.arrived, seen |-> req.seen,
   status |-> status, detail |-> detail, url |-> TrendingUrl(req.language),
   body |-> <<>>, fetched |-> FALSE, upstream |-> 0, html |-> <<>>,
   extracted |-> FALSE, repos |-> <<>>, outcomes |-> <<>>, repo_topics |-> NoTopics,
   cacheHit |-> FALSE, cacheWrite |-> FALSE]

Init ==
  /\ now = 0
  /\ cache = <<>>
  /\ inflight = [r \in 1..MaxRequests |-> IdleRequest]
  /\ arrivals = 0
  /\ last = <<>>
  /\ storeLog = {}

(* lines 269-283 up to the await of the trending GET *)
Arrive(language, query) ==
  /\ \E r \in DOMAIN inflight : inflight[r].pc = "idle"
  /\ arrivals' = arrivals + 1
  /\ LET repo_limit == RepoLimitOf(query)
         slot == CHOOSE r \in DOMAIN inflight :
                   /\ inflight[r].pc = "idle"
                   /\ \A q \in DOMAIN inflight : inflight[q].pc = "idle" => r <= q
         req == [IdleRequest EXCEPT !.pc = "fetching", !.language = language,
                   !.query = query, !.repo_limit = repo_limit, !.arrived = now,
                   !.seen = SeenStores(language, repo_limit)]
         detail == ValidationDetail(language, repo_limit)
         cache_key == CacheKey(language, repo_limit)
     IN IF detail # DetailNone
        THEN /\ last' = <<Response(req, 400, detail)>>
             /\ UNCHANGED <<cache, inflight>>
        ELSE IF CacheContains(cache, cache_key, now)
        THEN /\ last' = <<[Response(req, 200, DetailNone) EXCEPT
                             !.body = <<CacheValue(cache, cache_key)>>,
                             !.cacheHit = TRUE]>>
             /\ cache' = CacheTouch(cache, cache_key)
             /\ UNCHANGED inflight
        ELSE /\ inflight' = [inflight EXCEPT ![slot] = req]
             /\ UNCHANGED <<cache, last>>
  /\ UNCHANGED <<now, storeLog>>

(* what the response of a request past the trending fetch records *)
Analysed(req) ==
  [Response(req, 200, DetailNone) EXCEPT
     !.fetched = TRUE, !.upstream = req.upstream, !.html = req.html,
     !.extracted = TRUE, !.repos = req.repos_data, !.outcomes = req.outcomes,
     !.repo_topics = req.repo_topics]

(* lines 213-231 and 284-285: edges, GraphData, cache store, response *)
Finish(r, req) ==
  LET graph == [nodes |-> req.nodes,
                edges |-> BuildEdges(req.repos_data, req.repo_topics)]
      cache_key == CacheKey(req.language, req.repo_limit)
      evicted == CacheEvicted(cache, cache_key, graph, now)
  IN /\ cache' = CacheSetItem(cache, cache_key, graph, now)
     /\ storeLog' =
          {IF e.key \in evicted THEN [e EXCEPT !.evicted = TRUE] ELSE e : e \in storeLog}
          \cup {[key |-> cache_key, graph |-> graph, at |-> now, evicted |-> FALSE]}
     /\ last' = <<[Analysed(req) EXCEPT !.body = <<graph>>, !.cacheWrite = TRUE]>>
     /\ inflight' = [inflight EXCEPT ![r] = IdleRequest]

(* lines 67-75, 202-211 and 232-235: the trending GET resolves; with no    *)
(* record extracted both loops run zero times and the request finishes     *)
TrendingResponse(r, outcome) ==
  /\ inflight[r].pc = "fetching"
  /\ LET req == inflight[r]
         failed == [Response(req, 500, DetailErrorFetching) EXCEPT
                      !.fetched = TRUE, !.upstream = outcome.status]
     IN IF outcome.kind = "RequestError"
        THEN /\ last' = <<failed>>
             /\ inflight' = [inflight EXCEPT ![r] = IdleRequest]
             /\ UNCHANGED <<cache, storeLog>>
        ELSE IF outcome.kind = "Status"
        THEN /\ last' = <<[failed EXCEPT !.status = outcome.status,
                                         !.detail = DetailFailedToFetch]>>
             /\ inflight' = [inflight EXCEPT ![r] = IdleRequest]
             /\ UNCHANGED <<cache, storeLog>>
        ELSE LET repos_data == extract_repo_data(outcome.html, req.language, req.repo_limit)
                 parsed == [req EXCEPT !.upstream = outcome.status, !.html = outcome.html,
                                       !.repos_data = repos_data]
             IN IF NodesRaise(repos_data)
                THEN /\ last' = <<[Analysed(parsed) EXCEPT
                                     !.status = 500, !.detail = DetailErrorAnalyzing]>>
                     /\ inflight' = [inflight EXCEPT ![r] = IdleRequest]
                     /\ UNCHANGED <<cache, storeLog>>
                ELSE LET built == [parsed EXCEPT !.nodes = NodesOf(repos_data)]
                     IN IF repos_data = <<>>
                        THEN Finish(r, built)
                        ELSE /\ inflight' = [inflight EXCEPT
                                               ![r] = [built EXCEPT !.pc = "enriching"]]
                             /\ UNCHANGED <<cache, storeLog, last>>
  /\ UNCHANGED <<now, arrivals>>

(* lines 210-211: the topic GET of record k resolves; the loop issues the  *)
(* next one or, after the last record, the request finishes                *)
TopicResponse(r, outcome) ==
  /\ inflight[r].pc = "enriching"
  /\ LET req == inflight[r]
         name == req.repos_data[req.k + 1].name
         topics == FetchedTopics(outcome)
         stored == [n \in DOMAIN req.repo_topics \cup {name} |->
                      IF n = name THEN topics ELSE req.repo_topics[n]]
         next == [req EXCEPT !.k = req.k + 1, !.outcomes = Append(req.outcomes, outcome),
                             !.repo_topics = stored]
     IN IF next.k < Len(req.repos_data)
        THEN /\ inflight' = [inflight EXCEPT ![r] = next]
             /\ UNCHANGED <<cache, storeLog, last>>
        ELSE Finish(r, next)
  /\ UNCHANGED <<now, arrivals>>

(* time.monotonic() advances *)
Tick ==
  /\ now + TickStep <= MaxTicks * TickStep
  /\ now' = now + TickStep
  /\ UNCHANGED <<cache, inflight, arrivals, last, storeLog>>

(* No state of Spec enables TopicResponse: NodesRaise holds of every       *)
(* non-empty repos_data, so no request gets past line 205 with a record.   *)
Next ==
  \/ /\ arrivals < MaxRequests
     /\ \E language \in ReqLanguages, query \in ReqQueries : Arrive(language, query)
  \/ \E r \in 1..MaxRequests, outcome \in TrendingOutcomes : TrendingResponse(r, outcome)
  \/ Tick

Spec == Init /\ [][Next]_vars

(* one request at a time against every listing of up to MaxEntries entries *)
NextExtract ==
  \/ /\ arrivals = 0
     /\ \E language \in ExtractLanguages, query \in ExtractQueries : Arrive(language, query)
  \/ \E h \in Listings : TrendingResponse(1, OutcomeOK(h))

SpecExtract == Init /\ [][NextExtract]_vars

(* The enrichment and edge loops of analyze_repositories, lines 208-231,   *)
(* run on every repos_data that extract_repo_data yields for a listing of  *)
(* up to MaxRecords entries: the request stands at the await of line 211   *)
(* for its first record.  Line 205 lies before these loops and raises on   *)
(* each of these repos_data, so the local nodes keeps its initial value    *)
(* here and no formula of this specification reads the nodes of a graph.   *)
EnrichInputs ==
  {extract_repo_data(h, StrGo, DEFAULT_REPO_LIMIT) : h \in SeqsUpTo(Entries, MaxRecords)}
    \ {<<>>}

InitEnrich ==
  /\ now = 0
  /\ cache = <<>>
  /\ arrivals = 1
  /\ last = <<>>
  /\ storeLog = {}
  /\ \E repos_data \in EnrichInputs :
       inflight = [r \in 1..MaxRequests |->
                     IF r = 1
                     THEN [IdleRequest EXCEPT
                             !.pc = "enriching", !.language = StrGo,
                             !.repo_limit = DEFAULT_REPO_LIMIT, !.upstream = 200,
                             !.repos_data = repos_data]
                     ELSE IdleRequest]

NextEnrich == \E outcome \in TopicOutcomes : TopicResponse(1, outcome)

SpecEnrich == InitEnrich /\ [][NextEnrich]_vars

(* Sequential requests for one language with ever new limits and no        *)
(* matching entry, up to one more key than the cache holds; after the last *)
(* new key the first key is asked again, at any time within or after the   *)
(* TTL of the stores.                                                      *)
FillRepeats == 2
StoredKeys == {e.key : e \in storeLog}
FillQueries ==
  LET n == Cardinality(StoredKeys)
  IN (IF n <= CACHE_MAXSIZE THEN {<<n + 1>>} ELSE {})
     \cup (IF n = CACHE_MAXSIZE + 1 THEN {<<1>>} ELSE {})

NextFill ==
  \/ /\ arrivals < CACHE_MAXSIZE + 1 + FillRepeats
     /\ \A r \in DOMAIN inflight : inflight[r].pc = "idle"
     /\ \E query \in FillQueries : Arrive(StrGoLower, query)
  \/ TrendingResponse(1, OutcomeOK(<<>>))
  \/ /\ Cardinality(StoredKeys) = CACHE_MAXSIZE + 1
     /\ Tick

SpecFill == Init /\ [][NextFill]_vars

(* ======================= the claims ======================= *)
Responses == {last[i] : i \in DOMAIN last}

InFlight == {inflight[r] : r \in {q \in DOMAIN inflight : inflight[q].pc # "idle"}}

(* C1: every successful response to a request with repo_limit > 0 carries  *)
(* at most repo_limit nodes (10 when repo_limit is not given); the records *)
(* extract_repo_data hands to the construction of the nodes are already    *)
(* bounded by repo_limit, whatever the listing.                            *)
C1_LimitBound ==
  \A resp \in Responses :
    /\ (resp.status = 200 /\ resp.repo_limit > 0)
         => /\ Len(resp.body[1].nodes) <= resp.repo_limit
            /\ (resp.query = <<>> => Len(resp.body[1].nodes) <= 10)
    /\ resp.extracted => Len(resp.repos) <= resp.repo_limit

(* a successful response whose listing is longer than the limit *)
C1_Witness ==
  \E resp \in Responses :
    /\ resp.status = 200
    /\ resp.extracted
    /\ Len(resp.html) > resp.repo_limit

(* the entries section 4.2 of the specification collects: named, with      *)
(* parsable counters and the requested language                           *)
Collectable(el, language) ==
  /\ el.name # NoElem
  /\ ParseInt(RemoveCommas(ElementText(el.stars, <<"0">>))) # ParseFailure
  /\ ParseInt(RemoveCommas(ElementText(el.forks, <<"0">>))) # ParseFailure
  /\ el.lang # NoText
  /\ Lower(el.lang) = Lower(language)

RECURSIVE FirstCollectable(_, _, _)
FirstCollectable(elems, language, limit) ==
  IF elems = <<>> \/ limit <= 0 THEN <<>>
  ELSE IF Collectable(Head(elems), language)
       THEN <<Head(elems).name>> \o FirstCollectable(Tail(elems), language, limit - 1)
       ELSE FirstCollectable(Tail(elems), language, limit)

RepoNames(repos_data) == [i \in DOMAIN repos_data |-> repos_data[i].name]

(* C2: extract_repo_data returns exactly the first min(limit, m) matching  *)
(* entries of the listing in document order; an entry of another language  *)
(* does not count toward the limit.                                        *)
C2_FirstMatching ==
  \A resp \in Responses :
    resp.extracted =>
      RepoNames(resp.repos) = FirstCollectable(resp.html, resp.language, resp.repo_limit)

(* C3: a listing fetched successfully from which no record is extracted    *)
(* ends in 404, with no graph in the response and no cache entry stored.   *)
C3_NotFound ==
  \A resp \in Responses :
    (resp.extracted /\ resp.repos = <<>>)
      => /\ resp.status = 404
         /\ resp.body = <<>>
         /\ ~resp.cacheWrite

Invalid(language, repo_limit) ==
  \/ language = StrEmpty
  \/ Lower(language) \in {StrAllLower, StrUnknownLower}
  \/ repo_limit <= 0

C4_NoWork ==
  /\ \A req \in InFlight : ~Invalid(req.language, req.repo_limit)
  /\ \A resp \in Responses :
       Invalid(resp.language, resp.repo_limit)
         => /\ resp.status = 400
            /\ ~resp.fetched
            /\ resp.outcomes = <<>>
            /\ ~resp.cacheHit
            /\ ~resp.cacheWrite
            /\ resp.body = <<>>

C4_Step ==
  \A i \in DOMAIN last' :
    (last' # last /\ Invalid(last'[i].language, last'[i].repo_limit))
      => /\ cache' = cache
         /\ inflight' = inflight
         /\ storeLog' = storeLog

C8_LanguageFilter ==
  \A resp \in Responses :
    /\ resp.status = 200 =>
         \A i \in DOMAIN resp.body[1].nodes :
           Lower(resp.body[1].nodes[i].language) = Lower(resp.language)
    /\ resp.extracted =>
         \A i \in DOMAIN resp.repos :
           Lower(resp.repos[i].language) = Lower(resp.language)

(* a successful response to "Go" over a listing with an entry in C and an  *)
(* entry without a language                                                *)
C8_Witness ==
  \E resp \in Responses :
    /\ resp.status = 200
    /\ resp.language = StrGo
    /\ \E i \in DOMAIN resp.html : resp.html[i].lang = StrC
    /\ \E i \in DOMAIN resp.html : resp.html[i].lang = NoText

(* C10: a non-success status of the trending fetch is answered with        *)
(* status 400 and the detail "Failed to fetch <url>: ..."; nothing is      *)
(* extracted or stored.                                                    *)
C10_UpstreamStatus ==
  \A resp \in Responses :
    resp.upstream \in ErrorStatuses
      => /\ resp.status = 400
         /\ resp.detail = DetailFailedToFetch
         /\ resp.url = TrendingUrl(resp.language)
         /\ ~resp.extracted
         /\ ~resp.cacheWrite

(* the stores a request found on arrival under its own key, and those of   *)
(* them less than the TTL old                                              *)
SameKeyStores(x) == {e \in x.seen : e.key = CacheKey(x.language, x.repo_limit)}

WithinTTL(x, stores) == {e \in stores : x.arrived - e.at < CACHE_TTL}

C5_Hit(stores(_)) ==
  /\ \A req \in InFlight : WithinTTL(req, stores(req)) = {}
  /\ \A resp \in Responses :
       WithinTTL(resp, stores(resp)) # {}
         => /\ resp.cacheHit
            /\ resp.status = 200
            /\ ~resp.fetched
            /\ resp.outcomes = <<>>
            /\ \A e \in WithinTTL(resp, stores(resp)) : resp.body = <<e.graph>>

C5_Expired ==
  \A resp \in Responses :
    (SameKeyStores(resp) # {} /\ WithinTTL(resp, SameKeyStores(resp)) = {})
      => (~resp.cacheHit /\ resp.fetched)

(* C5 as claimed: after a successful request, a request with the identical *)
(* key arriving within 3600 s of the store returns the same graph without  *)
(* any fetch, whatever requests came in between; one arriving after the    *)
(* TTL fetches the trending page afresh.                                   *)
C5_CacheCorrectness == C5_Hit(SameKeyStores) /\ C5_Expired

KeptStores(x) == {e \in SameKeyStores(x) : ~e.evicted}

(* C5 amended: the same, provided the entry was not evicted in between to  *)
(* make room for a 129th key (maxsize=128).                                *)
C5_CacheCorrectnessUnlessEvicted == C5_Hit(KeptStores) /\ C5_Expired

(* a hit on a kept entry after another key was evicted *)
C5_Witness ==
  /\ \E e \in storeLog : e.evicted
  /\ \E resp \in Responses : resp.cacheHit /\ WithinTTL(resp, KeptStores(resp)) # {}

(* the last record carrying a name decides repo_topics[name] (line 211)   *)
LastIndex(repos_data, name) ==
  CHOOSE i \in DOMAIN repos_data :
    /\ repos_data[i].name = name
    /\ \A j \in DOMAIN repos_data : repos_data[j].name = name => j <= i

NameFailed(resp, name) == resp.outcomes[LastIndex(resp.repos, name)].kind # "OK"

PageTopics(resp, name) == SetOf(resp.outcomes[LastIndex(resp.repos, name)].topics)

HasEdge(edges, source, target) ==
  \E k \in DOMAIN edges : edges[k].source = source /\ edges[k].target = target

(* C6: whichever topic fetches fail, the request succeeds with one node    *)
(* per extracted repository; a repository whose fetch failed has the empty *)
(* topic set and no incident edge, and the edges among the others are      *)
(* those of the topics their pages carry.                                  *)
C6_FailSoft ==
  \A resp \in Responses :
    (resp.extracted /\ resp.repos # <<>>)
      => /\ resp.status = 200
         /\ Len(resp.outcomes) = Len(resp.repos)
         /\ LET names == RepoNames(resp.repos)
                nodes == resp.body[1].nodes
                edges == resp.body[1].edges
            IN /\ Len(nodes) = Len(names)
               /\ \A i \in DOMAIN names : nodes[i].id = names[i]
               /\ \A i \in DOMAIN names :
                    NameFailed(resp, names[i])
                      => /\ resp.repo_topics[names[i]] = <<>>
                         /\ \A k \in DOMAIN edges :
                              names[i] \notin {edges[k].source, edges[k].target}
               /\ \A i, j \in DOMAIN names :
                    (i < j /\ ~NameFailed(resp, names[i]) /\ ~NameFailed(resp, names[j]))
                      => (HasEdge(edges, names[i], names[j])
                            <=> PageTopics(resp, names[i]) \cap PageTopics(resp, names[j]) # {})

TopicSetOf(resp, i) == SetOf(TopicsGet(resp.repo_topics, resp.repos[i].name))

SharingPairs(resp) ==
  {p \in (DOMAIN resp.repos) \X (DOMAIN resp.repos) :
     p[1] < p[2] /\ TopicSetOf(resp, p[1]) \cap TopicSetOf(resp, p[2]) # {}}

AnyCaseStores(x) == x.seen

(* C9: two requests whose languages differ only in letter case and whose   *)
(* limits are equal address one cache entry: the second one, within the    *)
(* TTL of the store of the first, is a cache hit and fetches nothing.      *)
C9_NormalizedKey == C5_Hit(AnyCaseStores)

(* the positions at which a name occurs in the extraction order *)
PositionsOf(names, id) == {i \in DOMAIN names : names[i] = id}

TopicFetchesOutstanding(req) == IF req.pc = "enriching" THEN {req.k} ELSE {}

====
